---------------------------- MODULE Spec2Model ----------------------------
(* Model of the capture-and-refinement pipeline of src/main.py:            *)
(* the hotkey handler, the area-capture starter, the clipboard monitor,    *)
(* the processing queue with its single worker thread, the three-pass      *)
(* solver with feedback passes, and the typing emitter threads.            *)
EXTENDS Integers, Sequences, FiniteSets, TLC

(***************************************************************************)
(* Bounds of the model (not program constants).                            *)
(***************************************************************************)
\* total number of requests ever put on the processing queue in one run
MaxRequests == 2
\* total number of typing emitter threads ever started in one run
MaxEmissions == 2
\* total number of begin-area-capture commands that create an overlay
MaxCaptures == 2
\* number of lines of the texts that clean_code is applied to on its own
MaxLines == 4

(***************************************************************************)
(* Texts.  A text is a sequence of characters.  FENCE stands for the three *)
(* backquotes of a markdown code fence, taken as one unit; NL is newline.  *)
(***************************************************************************)
FENCE == "FENCE"
NL == "\n"
SP == " "
Whitespace == {SP, NL}

\* max_iterations=3 passed by _process_problem
MaxIterations == 3

\* str.strip(): drop leading whitespace
RECURSIVE LStrip(_)
LStrip(s) ==
  IF s = <<>> THEN <<>>
  ELSE IF Head(s) \in Whitespace THEN LStrip(Tail(s)) ELSE s

\* str.strip(): drop trailing whitespace
RECURSIVE RStrip(_)
RStrip(s) ==
  IF s = <<>> THEN <<>>
  ELSE IF s[Len(s)] \in Whitespace THEN RStrip(SubSeq(s, 1, Len(s) - 1)) ELSE s

\* str.strip()
Strip(s) == RStrip(LStrip(s))

\* the test (fence marker in code) that guards the block removal
ContainsFence(s) == \E i \in 1..Len(s) : s[i] = FENCE

\* str.split on newline: always at least one line
RECURSIVE SplitLines(_, _)
SplitLines(s, acc) ==
  IF s = <<>> THEN <<acc>>
  ELSE IF Head(s) = NL THEN <<acc>> \o SplitLines(Tail(s), <<>>)
  ELSE SplitLines(Tail(s), Append(acc, Head(s)))

\* newline.join(lines)
RECURSIVE JoinLines(_)
JoinLines(lines) ==
  IF lines = <<>> THEN <<>>
  ELSE IF Len(lines) = 1 THEN lines[1]
  ELSE lines[1] \o <<NL>> \o JoinLines(Tail(lines))

\* line.strip().startswith(fence marker)
StartsWithFence(line) ==
  LET t == Strip(line) IN t # <<>> /\ Head(t) = FENCE

\* the for loop of clean_code over the lines, with its in_block flag
RECURSIVE CleanLoop(_, _, _)
CleanLoop(lines, in_block, code_lines) ==
  IF lines = <<>> THEN code_lines
  ELSE LET line == Head(lines) IN
    IF StartsWithFence(line)
      THEN CleanLoop(Tail(lines), ~in_block, code_lines)
      ELSE IF in_block \/ (~StartsWithFence(line) /\ ~in_block)
        THEN IF ~StartsWithFence(line)
               THEN CleanLoop(Tail(lines), in_block, Append(code_lines, line))
               ELSE CleanLoop(Tail(lines), in_block, code_lines)
        ELSE CleanLoop(Tail(lines), in_block, code_lines)

\* clean_code as it would be if it returned code without the last strip()
clean_code_no_last_strip(text) ==
  LET code == Strip(text) IN
    IF ContainsFence(code)
      THEN JoinLines(CleanLoop(SplitLines(code, <<>>), FALSE, <<>>))
      ELSE code

\* ExpertCoder.clean_code
clean_code(text) ==
  LET code == Strip(text) IN
    IF ContainsFence(code)
      THEN Strip(JoinLines(CleanLoop(SplitLines(code, <<>>), FALSE, <<>>)))
      ELSE Strip(code)


(***************************************************************************)
(* Values of the environment.                                              *)
(***************************************************************************)
\* the absent value (Python None) of an image, a request datum, a clipboard
None == "none"
\* screen and clipboard images
Images == {"imgA", "imgB"}
\* a clipboard text that is a feedback annotation ('# fix ...')
FeedbackClip == "# fix it"
\* what the system clipboard can hold
ClipValues == Images \cup {FeedbackClip, None}

\* texts the AI service can answer with
RespFenced == <<FENCE, NL, "a", "b", NL, "b", NL, FENCE>>
RespPlain == <<"b", SP, "a", NL>>
RespBlank == <<FENCE, NL, FENCE>>
Responses == {RespFenced, RespPlain, RespBlank}

\* truth value of a Python str (response_text, solution, improved)
TruthyText(t) == t # <<>>
\* truth value of an Optional[str] result: <<>> is None, <<t>> is the text t
TruthyOpt(o) == o # <<>> /\ TruthyText(o[1])

\* hash(image.tobytes()) of the clipboard image
ImgHash(img) == IF img = "imgA" THEN 11 ELSE 22

\* ImageGrab.grabclipboard(): the clipboard's image, if it holds one
grabclipboard(c) == IF c \in Images THEN c ELSE None
\* pbpaste: the clipboard's text, empty when it holds no text
pbpaste(c) == IF c = FeedbackClip THEN c ELSE ""
\* ExpertCoder.extract_feedback on a clipboard text: the comment lines that
\* hold a trigger word, marker stripped
extract_feedback(t) == IF t = FeedbackClip THEN "fix it" ELSE None

\* min and max of two coordinates
min(a, b) == IF a < b THEN a ELSE b
max(a, b) == IF a > b THEN a ELSE b

\* area_bbox as it would be without the min and max: from start to end
area_bbox_as_dragged(start, end) ==
  [left |-> start[1], top |-> start[2], right |-> end[1], bottom |-> end[2]]

\* the bbox that capture_area hands to ImageGrab.grab
area_bbox(start, end) ==
  [left |-> min(start[1], end[1]), top |-> min(start[2], end[2]),
   right |-> max(start[1], end[1]), bottom |-> max(start[2], end[2])]

\* the test of capture_area for a selection with nothing in it
ZeroArea(start, end) ==
  LET b == area_bbox(start, end)
  IN b.right - b.left < 1 \/ b.bottom - b.top < 1

\* ScreenCapture.capture_area; grabbed is what ImageGrab.grab returns
\* (None when it raises)
capture_area(start, end, grabbed) ==
  IF ZeroArea(start, end) THEN None ELSE grabbed

(***************************************************************************)
(* State.                                                                  *)
(***************************************************************************)
VARIABLES
  running,            \* the process is alive (main has not printed Fatal)
  ctrl_pressed, shift_pressed, alt_pressed,           \* AppState modifiers
  capturing, start_pos, end_pos,                      \* AppState selection
  overlay,            \* state.overlay is set
  root,               \* UIManager.root is set
  windows,            \* overlay windows created and not destroyed
  mouse_threads,      \* mouse threads started that have not run yet
  captures,           \* begin-area-capture commands handled so far
  button, pointer,    \* the primary mouse button and where it last changed
  press_capturing,    \* capturing was set when the button went down
  drag,               \* the last press and release made while capturing
  drags,              \* number of such drags, counted up to MaxRequests
  clip,               \* content of the system clipboard
  clip_by,            \* who put it there: the user or this program
  last_clipboard_hash, feedback_text,                 \* AppState clipboard
  processing_queue,   \* AppState.processing_queue, a FIFO of requests
  enqueued,           \* number of requests put so far (their sequence tags)
  area_put,           \* number of area requests among them
  processed,          \* sequence tags in the order the worker took them
  wpc,                \* where the worker thread is
  cur,                \* the request the worker took last
  image,              \* the worker's image argument
  solution, iterations,       \* locals of solve_with_iterations
  inflight,           \* generate_content calls the service has not answered
  calls,              \* prompts sent for the request in hand, in order
  responses,          \* answers received for the request in hand, in order
  before,             \* the solution and history when that request was taken
  outcome,            \* how the request taken last ended
  response_text, problem_image, iteration_history,    \* AppState solution
  solution_image,     \* the image sent with the call that gave response_text
  is_typing,          \* AppState.is_typing
  emitters,           \* the live type_worker threads
  emissions,          \* number of type_worker threads started so far
  last_exit,          \* how the type_worker that ended last left
  fn, arg, result     \* a function applied on its own, its input and output

kbVars == <<ctrl_pressed, shift_pressed, alt_pressed>>
capVars == <<capturing, start_pos, end_pos, overlay, root, windows,
             mouse_threads, captures>>
mouseVars == <<button, pointer, press_capturing, drag, drags>>
clipVars == <<clip, clip_by, last_clipboard_hash, feedback_text>>
queueVars == <<processing_queue, enqueued, area_put, processed>>
workerVars == <<wpc, cur, image, solution, iterations, inflight, calls,
                responses, before, outcome>>
solVars == <<response_text, problem_image, iteration_history, solution_image>>
typeVars == <<is_typing, emitters, emissions, last_exit>>
fnVars == <<fn, arg, result>>
vars == <<running, kbVars, capVars, mouseVars, clipVars, queueVars, workerVars,
          solVars, typeVars, fnVars>>

\* a request before it is taken
NoRequest == [tag |-> None, data |-> None, seq |-> 0]

\* AppState() with __post_init__, and the threads of ExpertSolverApp.start;
\* the clipboard is empty
ProgramInit ==
  /\ running = TRUE
  /\ ctrl_pressed = FALSE /\ shift_pressed = FALSE /\ alt_pressed = FALSE
  /\ capturing = FALSE /\ start_pos = <<>> /\ end_pos = <<>>
  /\ overlay = FALSE /\ root = FALSE /\ windows = 0
  /\ mouse_threads = 0 /\ captures = 0
  /\ button = "up" /\ pointer = <<0, 0>>
  /\ press_capturing = FALSE /\ drag = <<>> /\ drags = 0
  /\ clip = None /\ clip_by = "none"
  /\ last_clipboard_hash = <<>> /\ feedback_text = ""
  /\ processing_queue = <<>> /\ enqueued = 0 /\ processed = <<>>
  /\ area_put = 0
  /\ wpc = "get" /\ cur = NoRequest /\ image = None
  /\ solution = <<>> /\ iterations = <<>>
  /\ inflight = 0 /\ calls = <<>> /\ responses = <<>>
  /\ before = [text |-> <<>>, history |-> <<>>, image |-> None]
  /\ outcome = "none"
  /\ response_text = <<>> /\ problem_image = None /\ iteration_history = <<>>
  /\ solution_image = None
  /\ is_typing = FALSE /\ emitters = {} /\ emissions = 0
  /\ last_exit = "none"

\* no function is applied on its own
NoFn == fn = "none" /\ arg = <<>> /\ result = <<>>

\* the program after construction
Init == ProgramInit /\ NoFn

(***************************************************************************)
(* The processing queue (queue.Queue).                                     *)
(***************************************************************************)
\* Queue.put: at the tail
queue_put(q, item) == Append(q, item)

\* queue_get as it would be for a LIFO queue
queue_get_last(q) == [item |-> q[Len(q)], rest |-> SubSeq(q, 1, Len(q) - 1)]

\* Queue.get: from the head
queue_get(q) == [item |-> Head(q), rest |-> Tail(q)]

\* processing_queue.put((tag, data)), the request tagged with its number
Put(tag, data) ==
  /\ enqueued < MaxRequests
  /\ enqueued' = enqueued + 1
  /\ processing_queue' =
       queue_put(processing_queue,
                 [tag |-> tag, data |-> data, seq |-> enqueued + 1])
  /\ area_put' = IF tag = "area" THEN area_put + 1 ELSE area_put
  /\ UNCHANGED processed

(***************************************************************************)
(* The worker thread: ExpertSolverApp._process_queue.                      *)
(***************************************************************************)
FreshTags == {"area", "window", "clipboard"}
FeedbackTags == {"refine", "feedback"}
Passes == {"pass1", "pass2", "pass3"}

\* the pass whose generate_content call the worker waits in
PassOf(pc) == IF pc = "pass1" THEN 1 ELSE IF pc = "pass2" THEN 2 ELSE 3
\* the worker position waiting in pass k
PcOf(k) == IF k = 1 THEN "pass1" ELSE IF k = 2 THEN "pass2" ELSE "pass3"
\* the instruction sent in pass k
PromptOf(k) ==
  IF k = 1 THEN "initial" ELSE IF k = 2 THEN "review" ELSE "optimize"

\* WorkerReady as it would be with a thread started for each request
WorkerAlwaysReady == TRUE

\* the worker takes a request only at the get() of its loop, which it
\* reaches when the request before is finished
WorkerReady == wpc = "get"

\* UIManager.destroy_overlay
destroy_overlay ==
  /\ overlay' = FALSE
  /\ root' = FALSE
  /\ windows' = IF overlay \/ root THEN windows - 1 ELSE windows
  /\ UNCHANGED <<capturing, start_pos, end_pos, mouse_threads, captures>>

\* loop_again as it would be if a failure left the while loop
loop_again_unless_failed(how) ==
  IF how \in {"error", "service_failure"} THEN "stopped" ELSE "get"

\* while True with its except Exception: however the request in hand ended,
\* the worker is at the get() of the next iteration
loop_again(how) == "get"

\* the request in hand ends without a service call
request_done(how) ==
  /\ wpc' = loop_again(how)
  /\ outcome' = how
  /\ calls' = <<>>
  /\ UNCHANGED <<image, solution, iterations, inflight, solVars>>

\* _process_problem up to the first generate_content call of
\* solve_with_iterations
_process_problem(img) ==
  /\ problem_image' = img
  /\ image' = img
  /\ solution' = <<>>
  /\ iterations' = <<>>
  /\ wpc' = PcOf(1)
  /\ inflight' = inflight + 1
  /\ calls' = <<PromptOf(1)>>
  /\ outcome' = "solving"
  /\ UNCHANGED <<response_text, iteration_history, solution_image>>

\* a refine or feedback request up to the generate_content call of
\* apply_user_feedback
apply_user_feedback ==
  /\ wpc' = "feedback"
  /\ inflight' = inflight + 1
  /\ calls' = <<"feedback">>
  /\ outcome' = "solving"
  /\ UNCHANGED <<image, solution, iterations, solVars>>

\* HasProblemAndSolution as it would be if only the image were tested
HasProblem == problem_image # None

\* the test of the refine and feedback branches:
\* self.state.problem_image and self.state.response_text
HasProblemAndSolution == problem_image # None /\ TruthyText(response_text)

\* one iteration of the loop of _process_queue, up to its first service
\* call or to its end
_process_queue ==
  /\ WorkerReady
  /\ processing_queue # <<>>
  /\ LET g == queue_get(processing_queue) IN
     /\ processing_queue' = g.rest
     /\ processed' = Append(processed, g.item.seq)
     /\ cur' = g.item
     /\ before' = [text |-> response_text, history |-> iteration_history,
                    image |-> problem_image]
     /\ responses' = <<>>
     /\ UNCHANGED <<mouseVars, enqueued, area_put, running, kbVars, clipVars,
                    typeVars>>
     /\ \/ /\ g.item.tag = "area"
           /\ \E tk \in {"ok", "raise"}, grabbed \in Images \cup {None} :
                IF tk = "raise"
                  THEN \* destroy() raises: caught by the loop's except
                       /\ overlay \/ root
                       /\ request_done("error")
                       /\ UNCHANGED capVars
                  ELSE /\ destroy_overlay
                       /\ IF start_pos # <<>> /\ end_pos # <<>>
                            THEN LET img == capture_area(start_pos, end_pos,
                                                          grabbed)
                                 IN IF img # None
                                      THEN _process_problem(img)
                                      ELSE request_done("nothing")
                            ELSE request_done("nothing")
        \/ /\ g.item.tag \in {"window", "clipboard"}
           /\ UNCHANGED capVars
           /\ IF g.item.data # None
                THEN _process_problem(g.item.data)
                ELSE request_done("nothing")
        \/ /\ g.item.tag \in FeedbackTags
           /\ UNCHANGED capVars
           /\ IF HasProblemAndSolution
                THEN apply_user_feedback
                ELSE request_done("nothing")

\* solve_failed as it would be if the except branch returned the work so far
solve_failed_partial(sol, its) == [solution |-> <<sol>>, iterations |-> its]

\* the except branch of solve_with_iterations: return None, []
solve_failed(sol, its) == [solution |-> <<>>, iterations |-> <<>>]

\* process_problem_end as it would be if it stored the first pass's answer
process_problem_end_first(res, how) ==
  /\ IF TruthyOpt(res.solution)
       THEN /\ response_text' = res.iterations[1]
            /\ iteration_history' = res.iterations
            /\ solution_image' = image
       ELSE UNCHANGED <<response_text, iteration_history, solution_image>>
  /\ wpc' = loop_again(how)
  /\ inflight' = inflight - 1
  /\ outcome' = IF how = "answered"
                  THEN IF TruthyOpt(res.solution) THEN "solved" ELSE "empty"
                  ELSE how
  /\ image' = None /\ solution' = <<>> /\ iterations' = <<>>
  /\ UNCHANGED <<problem_image, calls, cur, before>>

\* the end of _process_problem, with the result of solve_with_iterations
process_problem_end(res, how) ==
  /\ IF TruthyOpt(res.solution)
       THEN /\ response_text' = res.solution[1]
            /\ iteration_history' = res.iterations
            /\ solution_image' = image
       ELSE UNCHANGED <<response_text, iteration_history, solution_image>>
  /\ wpc' = loop_again(how)
  /\ inflight' = inflight - 1
  /\ outcome' = IF how = "answered"
                  THEN IF TruthyOpt(res.solution) THEN "solved" ELSE "empty"
                  ELSE how
  /\ image' = None /\ solution' = <<>> /\ iterations' = <<>>
  /\ UNCHANGED <<problem_image, calls, cur, before>>

\* generate_content answers r in a pass of solve_with_iterations: clean the
\* text, append it, and send the next pass or return
solve_with_iterations(r) ==
  /\ wpc \in Passes
  /\   LET k == PassOf(wpc)
           sol == clean_code(r)
           its == Append(iterations, sol)
       IN /\ responses' = Append(responses, r)
          /\ IF MaxIterations > k
               THEN /\ solution' = sol
                    /\ iterations' = its
                    /\ wpc' = PcOf(k + 1)
                    /\ calls' = Append(calls, PromptOf(k + 1))
                    /\ inflight' = (inflight - 1) + 1
                    /\ UNCHANGED <<image, cur, before, outcome, solVars>>
               ELSE process_problem_end(
                      [solution |-> <<sol>>, iterations |-> its], "answered")
  /\ UNCHANGED <<mouseVars, running, kbVars, capVars, clipVars, queueVars,
                 typeVars>>

\* generate_content (or response.text) raises in a pass of
\* solve_with_iterations
solve_with_iterations_raise ==
  /\ wpc \in Passes
  /\ process_problem_end(solve_failed(solution, iterations), "service_failure")
  /\ UNCHANGED responses
  /\ UNCHANGED <<mouseVars, running, kbVars, capVars, clipVars, queueVars,
                 typeVars>>

\* feedback_end as it would be if it replaced the history by the new entry
feedback_end_replace(improved, how) ==
  /\ IF TruthyOpt(improved)
       THEN /\ response_text' = improved[1]
            /\ iteration_history' = <<improved[1]>>
            /\ solution_image' = problem_image
       ELSE UNCHANGED <<response_text, iteration_history, solution_image>>
  /\ wpc' = loop_again(how)
  /\ inflight' = inflight - 1
  /\ outcome' = IF how = "answered"
                  THEN IF TruthyOpt(improved) THEN "solved" ELSE "empty"
                  ELSE how
  /\ UNCHANGED <<problem_image, image, solution, iterations, calls, cur,
                 before>>

\* the end of a refine or feedback request, with the result of
\* apply_user_feedback (<<>> is None)
feedback_end(improved, how) ==
  /\ IF TruthyOpt(improved)
       THEN /\ response_text' = improved[1]
            /\ iteration_history' = Append(iteration_history, improved[1])
            /\ solution_image' = problem_image
       ELSE UNCHANGED <<response_text, iteration_history, solution_image>>
  /\ wpc' = loop_again(how)
  /\ inflight' = inflight - 1
  /\ outcome' = IF how = "answered"
                  THEN IF TruthyOpt(improved) THEN "solved" ELSE "empty"
                  ELSE how
  /\ UNCHANGED <<problem_image, image, solution, iterations, calls, cur,
                 before>>

\* generate_content answers the call of apply_user_feedback
apply_user_feedback_answer ==
  /\ wpc = "feedback"
  /\ \E r \in Responses :
       /\ responses' = Append(responses, r)
       /\ feedback_end(<<clean_code(r)>>, "answered")
  /\ UNCHANGED <<mouseVars, running, kbVars, capVars, clipVars, queueVars,
                 typeVars>>

\* generate_content raises in apply_user_feedback: return None
apply_user_feedback_raise ==
  /\ wpc = "feedback"
  /\ feedback_end(<<>>, "service_failure")
  /\ UNCHANGED responses
  /\ UNCHANGED <<mouseVars, running, kbVars, capVars, clipVars, queueVars,
                 typeVars>>

(***************************************************************************)
(* The typing emitter: NaturalTyping.type_naturally run by type_worker.    *)
(***************************************************************************)
\* str.split(' ')
RECURSIVE SplitWords(_, _)
SplitWords(s, acc) ==
  IF s = <<>> THEN <<acc>>
  ELSE IF Head(s) = SP THEN <<acc>> \o SplitWords(Tail(s), <<>>)
  ELSE SplitWords(Tail(s), Append(acc, Head(s)))

\* kb_controller.type(char) for each char of a word; the fence unit is
\* three backquote characters
RECURSIVE WordKeys(_)
WordKeys(word) ==
  IF word = <<>> THEN <<>>
  ELSE (IF Head(word) = FENCE THEN <<"bq", "bq", "bq">> ELSE <<Head(word)>>)
       \o WordKeys(Tail(word))

\* the words of a line, a typed space after each word but the last
RECURSIVE LineKeys(_)
LineKeys(words) ==
  IF Len(words) = 1 THEN WordKeys(words[1])
  ELSE WordKeys(words[1]) \o <<SP>> \o LineKeys(Tail(words))

\* the lines of the text, the enter key after each line but the last
RECURSIVE TextKeys(_)
TextKeys(lines) ==
  IF Len(lines) = 1 THEN LineKeys(SplitWords(lines[1], <<>>))
  ELSE LineKeys(SplitWords(lines[1], <<>>)) \o <<"enter">>
       \o TextKeys(Tail(lines))

\* the calls type_naturally makes on the input sink for a text, in order
type_naturally(text) == TextKeys(SplitLines(text, <<>>))

\* type_worker_finally as it would be if the flag were cleared after the
\* try block and not in a finally clause
type_worker_finally_on_success(how) ==
  IF how = "error" THEN is_typing ELSE FALSE

\* the finally clause of type_worker: the value is_typing gets when the
\* emitter leaves by how ("done" or "error")
type_worker_finally(how) == FALSE

\* _type_code: set the flag and start a type_worker thread, which reads
\* response_text.  The speed only scales the delays.
\* rest: the sink calls still to make; cancelled: the x command was given
\* since the thread started; after: sink calls made since that command
_type_code ==
  /\ emissions < MaxEmissions
  /\ emissions' = emissions + 1
  /\ is_typing' = TRUE
  /\ emitters' = emitters \cup
       {[id |-> emissions + 1, rest |-> type_naturally(response_text),
         cancelled |-> FALSE, after |-> 0]}
  /\ UNCHANGED last_exit

\* _paste_response and _paste_fast
_paste_response ==
  /\ IF TruthyText(response_text) /\ ~is_typing
       THEN _type_code
       ELSE UNCHANGED typeVars
  /\ UNCHANGED <<mouseVars, running, capVars, clipVars, queueVars, workerVars,
                 solVars>>

\* the x branch of on_key_press
stop_typing ==
  /\ is_typing' = FALSE
  /\ emitters' = {[e EXCEPT !.cancelled = TRUE] : e \in emitters}
  /\ UNCHANGED <<emissions, last_exit>>
  /\ UNCHANGED <<mouseVars, running, capVars, clipVars, queueVars, workerVars,
                 solVars>>

\* one kb_controller call of a type_worker thread
type_worker_type(e) ==
  /\ e \in emitters
  /\ e.rest # <<>>
  /\ \E ok \in BOOLEAN :
       IF ok
         THEN /\ emitters' = (emitters \ {e}) \cup
                   {[e EXCEPT !.rest = Tail(e.rest),
                              !.after = IF e.cancelled THEN @ + 1 ELSE @]}
              /\ UNCHANGED <<is_typing, last_exit>>
         ELSE \* the sink raises: except, then finally
              /\ emitters' = emitters \ {e}
              /\ is_typing' = type_worker_finally("error")
              /\ last_exit' = "error"
  /\ UNCHANGED emissions
  /\ UNCHANGED <<mouseVars, running, kbVars, capVars, clipVars, queueVars,
                 workerVars, solVars>>

\* type_naturally returns: "Solution typed", then finally
type_worker_done(e) ==
  /\ e \in emitters
  /\ e.rest = <<>>
  /\ emitters' = emitters \ {e}
  /\ is_typing' = type_worker_finally("done")
  /\ last_exit' = "done"
  /\ UNCHANGED emissions
  /\ UNCHANGED <<mouseVars, running, kbVars, capVars, clipVars, queueVars,
                 workerVars, solVars>>

(***************************************************************************)
(* The hotkey handler.                                                     *)
(***************************************************************************)
\* UIManager.create_overlay: a new Tk root and a new Toplevel replace the
\* ones the fields held
create_overlay ==
  /\ root' = TRUE
  /\ overlay' = TRUE
  /\ windows' = windows + 1

\* _start_area_capture.  When tkinter raises in create_overlay the
\* exception leaves on_key_press (which catches AttributeError only), the
\* keyboard listener stops, listener.join() re-raises in start() and main
\* prints Fatal: the process ends.
_start_area_capture ==
  /\ captures < MaxCaptures
  /\ captures' = captures + 1
  /\ capturing' = TRUE
  /\ \E tk \in {"ok", "raise"} :
       IF tk = "ok"
         THEN /\ create_overlay
              /\ mouse_threads' = mouse_threads + 1
              /\ UNCHANGED running
         ELSE /\ running' = FALSE
              /\ UNCHANGED <<overlay, root, windows, mouse_threads>>
  /\ UNCHANGED <<mouseVars, start_pos, end_pos, clipVars, queueVars, workerVars,
                 solVars, typeVars>>

\* the target of mouse_thread: mouse.Listener(...).join().  The Listener is
\* constructed and joined without having been started, so Thread.join
\* raises RuntimeError (cannot join thread before it is started) and the
\* thread ends: no mouse listener runs, and on_mouse_click and
\* on_mouse_move are never called.
mouse_thread ==
  /\ mouse_threads > 0
  /\ mouse_threads' = mouse_threads - 1
  /\ UNCHANGED <<capturing, start_pos, end_pos, overlay, root, windows,
                 captures>>
  /\ UNCHANGED <<mouseVars, running, kbVars, clipVars, queueVars, workerVars,
                 solVars, typeVars>>

\* screen coordinates of the pointer
Coords == {0, 1}
Positions == Coords \X Coords

\* a drag made in capture mode ends with this release
DragEnds(pressed) == ~pressed /\ press_capturing /\ capturing

\* mouse_click as it would be with two listeners started, whose
\* on_mouse_click calls both find capturing set at a release: each puts an
\* area request
mouse_click_two_listeners(p, pressed) ==
  /\ button = IF pressed THEN "up" ELSE "down"
  /\ button' = IF pressed THEN "down" ELSE "up"
  /\ pointer' = p
  /\ press_capturing' = IF pressed THEN capturing ELSE press_capturing
  /\ drag' = IF DragEnds(pressed) THEN <<pointer, p>> ELSE drag
  /\ drags' = IF DragEnds(pressed) /\ drags < MaxRequests
                THEN drags + 1 ELSE drags
  /\ IF DragEnds(pressed) /\ enqueued + 2 <= MaxRequests
       THEN /\ enqueued' = enqueued + 2
            /\ area_put' = area_put + 2
            /\ processing_queue' =
                 processing_queue \o
                   <<[tag |-> "area", data |-> None, seq |-> enqueued + 1],
                     [tag |-> "area", data |-> None, seq |-> enqueued + 2]>>
            /\ UNCHANGED processed
       ELSE UNCHANGED queueVars
  /\ UNCHANGED <<running, kbVars, capVars, clipVars, workerVars,
                 solVars, typeVars>>

\* the user presses (pressed) or releases the primary mouse button at p.
\* pynput calls on_click of every running mouse listener; the program
\* has none (see mouse_thread), so nothing of the program changes.
mouse_click(p, pressed) ==
  /\ button = IF pressed THEN "up" ELSE "down"
  /\ button' = IF pressed THEN "down" ELSE "up"
  /\ pointer' = p
  /\ press_capturing' = IF pressed THEN capturing ELSE press_capturing
  /\ drag' = IF DragEnds(pressed) THEN <<pointer, p>> ELSE drag
  /\ drags' = IF DragEnds(pressed) /\ drags < MaxRequests
                THEN drags + 1 ELSE drags
  /\ UNCHANGED <<running, kbVars, capVars, clipVars, queueVars, workerVars,
                 solVars, typeVars>>

\* to_clipboard as it would be if osascript were run and set the clipboard
to_clipboard_writes(img) == [clip |-> img, by |-> "program"]

\* ScreenCapture.to_clipboard: the clipboard after the call.  subprocess.run
\* is given capture_output=True together with stderr=DEVNULL, for which it
\* raises ValueError before it starts osascript; the except branch returns
\* False, so the clipboard is left as it was.
to_clipboard(img) == [clip |-> clip, by |-> clip_by]

\* _capture_window: capture_window gives an image or None
_capture_window ==
  /\ \E img \in Images \cup {None} :
       IF img # None
         THEN /\ clip' = to_clipboard(img).clip
              /\ clip_by' = to_clipboard(img).by
              /\ Put("window", img)
         ELSE UNCHANGED <<clip, clip_by, queueVars>>
  /\ UNCHANGED <<last_clipboard_hash, feedback_text>>
  /\ UNCHANGED <<mouseVars, running, capVars, workerVars, solVars, typeVars>>

\* _refine_solution
_refine_solution ==
  /\ IF problem_image # None /\ TruthyText(response_text)
       THEN Put("refine", None)
       ELSE UNCHANGED queueVars
  /\ UNCHANGED <<mouseVars, running, capVars, clipVars, workerVars, solVars,
                 typeVars>>

ModifierKeys == {"ctrl", "shift", "alt"}
\* character keys: the seven commands and one other letter
CharKeys == {"c", "w", "v", "f", "x", "r", "h", "z"}
Keys == ModifierKeys \cup CharKeys

\* on_key_press as it would be if its commands needed the ctrl flag only
on_key_press_ctrl_only(key) ==
  IF key = "ctrl" THEN
    ctrl_pressed' = TRUE /\ UNCHANGED <<shift_pressed, alt_pressed>>
    /\ UNCHANGED <<mouseVars, running, capVars, clipVars, queueVars,
                   workerVars, solVars, typeVars>>
  ELSE IF key = "shift" THEN
    shift_pressed' = TRUE /\ UNCHANGED <<ctrl_pressed, alt_pressed>>
    /\ UNCHANGED <<mouseVars, running, capVars, clipVars, queueVars,
                   workerVars, solVars, typeVars>>
  ELSE IF key = "alt" THEN
    alt_pressed' = TRUE /\ UNCHANGED <<ctrl_pressed, shift_pressed>>
    /\ UNCHANGED <<mouseVars, running, capVars, clipVars, queueVars,
                   workerVars, solVars, typeVars>>
  ELSE IF ctrl_pressed THEN
    /\ UNCHANGED kbVars
    /\ IF key = "c" THEN _start_area_capture
       ELSE IF key = "w" THEN _capture_window
       ELSE IF key = "v" THEN _paste_response
       ELSE IF key = "f" THEN _paste_response
       ELSE IF key = "x" THEN stop_typing
       ELSE IF key = "r" THEN _refine_solution
       ELSE UNCHANGED <<mouseVars, running, capVars, clipVars, queueVars,
                        workerVars, solVars, typeVars>>
  ELSE UNCHANGED vars

\* HotkeyHandler.on_key_press
on_key_press(key) ==
  IF key = "ctrl" THEN
    ctrl_pressed' = TRUE /\ UNCHANGED <<shift_pressed, alt_pressed>>
    /\ UNCHANGED <<mouseVars, running, capVars, clipVars, queueVars,
                   workerVars, solVars, typeVars>>
  ELSE IF key = "shift" THEN
    shift_pressed' = TRUE /\ UNCHANGED <<ctrl_pressed, alt_pressed>>
    /\ UNCHANGED <<mouseVars, running, capVars, clipVars, queueVars,
                   workerVars, solVars, typeVars>>
  ELSE IF key = "alt" THEN
    alt_pressed' = TRUE /\ UNCHANGED <<ctrl_pressed, shift_pressed>>
    /\ UNCHANGED <<mouseVars, running, capVars, clipVars, queueVars,
                   workerVars, solVars, typeVars>>
  ELSE IF ctrl_pressed /\ shift_pressed THEN
    /\ UNCHANGED kbVars
    /\ IF key = "c" THEN _start_area_capture
       ELSE IF key = "w" THEN _capture_window
       ELSE IF key = "v" THEN _paste_response
       ELSE IF key = "f" THEN _paste_response
       ELSE IF key = "x" THEN stop_typing
       ELSE IF key = "r" THEN _refine_solution
       ELSE \* h prints the history; another letter does nothing
            UNCHANGED <<mouseVars, running, capVars, clipVars, queueVars,
                        workerVars, solVars, typeVars>>
  ELSE UNCHANGED vars

\* HotkeyHandler.on_key_release
on_key_release(key) ==
  /\ IF key = "ctrl" THEN
       ctrl_pressed' = FALSE /\ UNCHANGED <<shift_pressed, alt_pressed>>
     ELSE IF key = "shift" THEN
       shift_pressed' = FALSE /\ UNCHANGED <<ctrl_pressed, alt_pressed>>
     ELSE IF key = "alt" THEN
       alt_pressed' = FALSE /\ UNCHANGED <<ctrl_pressed, shift_pressed>>
     ELSE UNCHANGED kbVars
  /\ UNCHANGED <<mouseVars, running, capVars, clipVars, queueVars, workerVars,
                 solVars, typeVars>>

(***************************************************************************)
(* The clipboard monitor and the user's clipboard.                         *)
(***************************************************************************)
\* clipboard_text.startswith('#')
StartsWithHash(t) == t = FeedbackClip

\* image_is_new as it would be without the comparison of fingerprints
image_is_new_always(img) == TRUE

\* img_hash != self.state.last_clipboard_hash
image_is_new(img) == <<ImgHash(img)>> # last_clipboard_hash

\* one iteration of ClipboardMonitor._monitor_loop.  The clipboard holds an
\* image or a text, so at most one of the two branches puts a request.
_monitor_loop ==
  /\ LET img == grabclipboard(clip)
         text == pbpaste(clip)
         feedback == IF text # "" /\ StartsWithHash(text)
                       THEN extract_feedback(text) ELSE None
     IN IF img # None /\ image_is_new(img)
          THEN /\ last_clipboard_hash' = <<ImgHash(img)>>
               /\ Put("clipboard", img)
               /\ UNCHANGED <<clip, clip_by, feedback_text>>
          ELSE IF feedback # None /\ feedback # feedback_text
            THEN /\ feedback_text' = feedback
                 /\ Put("feedback", feedback)
                 /\ UNCHANGED <<clip, clip_by, last_clipboard_hash>>
            ELSE UNCHANGED <<clipVars, queueVars>>
  /\ UNCHANGED <<mouseVars, running, kbVars, capVars, workerVars, solVars,
                 typeVars>>

\* the user (or another program) copies something
user_copy(c) ==
  /\ c # clip
  /\ clip' = c
  /\ clip_by' = "user"
  /\ UNCHANGED <<last_clipboard_hash, feedback_text>>
  /\ UNCHANGED <<mouseVars, running, kbVars, capVars, queueVars, workerVars,
                 solVars, typeVars>>

(***************************************************************************)
(* The specification.                                                      *)
(***************************************************************************)
\* every thread of the process runs only while the process is alive
KeyPress ==
  /\ running /\ \E key \in Keys : on_key_press(key)
  /\ UNCHANGED fnVars
KeyRelease ==
  /\ running /\ \E key \in ModifierKeys : on_key_release(key)
  /\ UNCHANGED fnVars
MouseThread ==
  /\ running /\ mouse_thread
  /\ UNCHANGED fnVars
MouseClick ==
  /\ \E p \in Positions, pressed \in BOOLEAN : mouse_click(p, pressed)
  /\ UNCHANGED fnVars
ClipboardTick ==
  /\ running /\ _monitor_loop
  /\ UNCHANGED fnVars
UserCopy ==
  /\ \E c \in ClipValues : user_copy(c)
  /\ UNCHANGED fnVars
WorkerTake ==
  /\ running /\ _process_queue
  /\ UNCHANGED fnVars
SolveAnswer ==
  /\ running /\ \E r \in Responses : solve_with_iterations(r)
  /\ UNCHANGED fnVars
SolveRaise ==
  /\ running /\ solve_with_iterations_raise
  /\ UNCHANGED fnVars
FeedbackAnswer ==
  /\ running /\ apply_user_feedback_answer
  /\ UNCHANGED fnVars
FeedbackRaise ==
  /\ running /\ apply_user_feedback_raise
  /\ UNCHANGED fnVars
EmitterType ==
  /\ running /\ \E e \in emitters : type_worker_type(e)
  /\ UNCHANGED fnVars
EmitterDone ==
  /\ running /\ \E e \in emitters : type_worker_done(e)
  /\ UNCHANGED fnVars

Next ==
  \/ KeyPress
  \/ KeyRelease
  \/ MouseThread
  \/ MouseClick
  \/ ClipboardTick
  \/ UserCopy
  \/ WorkerTake
  \/ SolveAnswer
  \/ SolveRaise
  \/ FeedbackAnswer
  \/ FeedbackRaise
  \/ EmitterType
  \/ EmitterDone

\* the whole program: every thread and every input
Spec == Init /\ [][Next]_vars

(***************************************************************************)
(* The program under restricted input, one specification for each part of  *)
(* the pipeline.  Each takes the actions of Next that the part involves;   *)
(* the user presses only the keys named.                                   *)
(***************************************************************************)
\* solving: ctrl+shift+w and ctrl+shift+r, the clipboard monitor, the worker
SolveKeys == {"ctrl", "shift", "w", "r"}
KeyPressSolve ==
  /\ running /\ \E key \in SolveKeys : on_key_press(key)
  /\ UNCHANGED fnVars
NextSolve ==
  \/ KeyPressSolve
  \/ ClipboardTick
  \/ UserCopy
  \/ WorkerTake
  \/ SolveAnswer
  \/ SolveRaise
  \/ FeedbackAnswer
  \/ FeedbackRaise
SpecSolve == Init /\ [][NextSolve]_vars

\* typing: the user copies one image, the clipboard monitor enqueues it,
\* the service answers RespFenced in each pass, and the user gives
\* ctrl+shift+v, f and x
TypeKeys == {"ctrl", "shift", "v", "f", "x"}
KeyPressType ==
  /\ running /\ \E key \in TypeKeys : on_key_press(key)
  /\ UNCHANGED fnVars
UserCopyImage ==
  /\ user_copy("imgA")
  /\ UNCHANGED fnVars
SolveAnswerFenced ==
  /\ running /\ solve_with_iterations(RespFenced)
  /\ UNCHANGED fnVars
NextType ==
  \/ KeyPressType
  \/ UserCopyImage
  \/ ClipboardTick
  \/ WorkerTake
  \/ SolveAnswerFenced
  \/ EmitterType
  \/ EmitterDone
SpecType == Init /\ [][NextType]_vars

\* area capture: ctrl+shift+c, h and another letter, with key releases
\* and the user's mouse clicks
CaptureKeys == {"ctrl", "shift", "alt", "c", "h", "z"}
KeyPressCapture ==
  /\ running /\ \E key \in CaptureKeys : on_key_press(key)
  /\ UNCHANGED fnVars
NextCapture ==
  \/ KeyPressCapture
  \/ KeyRelease
  \/ MouseThread
  \/ MouseClick
SpecCapture == Init /\ [][NextCapture]_vars

\* area selection next to the worker: ctrl+shift+c and ctrl+shift+w, the
\* mouse thread, the user's mouse clicks, and the worker with the service
\* answering RespFenced in each pass
AreaKeys == {"ctrl", "shift", "c", "w"}
KeyPressArea ==
  /\ running /\ \E key \in AreaKeys : on_key_press(key)
  /\ UNCHANGED fnVars
NextArea ==
  \/ KeyPressArea
  \/ MouseThread
  \/ MouseClick
  \/ WorkerTake
  \/ SolveAnswerFenced
SpecArea == Init /\ [][NextArea]_vars

\* the hotkeys: every key pressed and released, with the worker and the
\* service answering RespFenced in the passes of a solve, so that the
\* commands that need a solution have one
NextKeys ==
  \/ KeyPress
  \/ KeyRelease
  \/ WorkerTake
  \/ SolveAnswerFenced
SpecKeys == Init /\ [][NextKeys]_vars

(***************************************************************************)
(* Functions applied on their own: the input is drawn by the initial       *)
(* state, the program stands still.                                        *)
(***************************************************************************)
progVars == <<running, kbVars, capVars, mouseVars, clipVars, queueVars,
              workerVars, solVars, typeVars>>

\* the lines of the texts: a fence line, a fence line with a language tag,
\* an indented fence line, a code line, an indented code line, a line with
\* a fence marker inside it, an empty line and a line of one space
CleanLineKinds ==
  {<<FENCE>>, <<FENCE, "a">>, <<SP, FENCE>>, <<"a">>, <<SP, "b">>,
   <<"a", FENCE>>, <<>>, <<SP>>}
\* the texts of at most MaxLines such lines
CleanInputs ==
  {JoinLines(ls) : ls \in UNION {[1..k -> CleanLineKinds] : k \in 1..MaxLines}}

\* a text is handed to clean_code
InitClean == ProgramInit /\ fn = "none" /\ arg \in CleanInputs /\ result = <<>>

\* clean_code applied to the text, and then to its own result
CleanCode ==
  /\ Len(result) < 2
  /\ fn' = "clean_code"
  /\ result' = Append(result, clean_code(IF result = <<>>
                                            THEN arg
                                            ELSE result[Len(result)]))
  /\ UNCHANGED <<arg, progVars>>

NextClean == CleanCode
SpecClean == InitClean /\ [][NextClean]_vars

\* the coordinates of the corners handed to capture_area: on the main
\* screen, and left of or above it (a second display)
AreaCoords == {-10, 0, 10, 20, 50, 80}
AreaPoints == AreaCoords \X AreaCoords

\* two corners are handed to capture_area
InitCapture ==
  /\ ProgramInit
  /\ fn = "none" /\ arg \in AreaPoints \X AreaPoints /\ result = <<>>

\* capture_area applied to the corners: the bbox it computes, and what it
\* returns when ImageGrab.grab gives an image or raises
CaptureArea ==
  /\ fn = "none"
  /\ fn' = "capture_area"
  /\ \E grabbed \in Images \cup {None} :
       result' = <<area_bbox(arg[1], arg[2]),
                   capture_area(arg[1], arg[2], grabbed)>>
  /\ UNCHANGED <<arg, progVars>>

NextCaptureArea == CaptureArea
SpecCaptureArea == InitCapture /\ [][NextCaptureArea]_vars

\* the worker fed by the clipboard monitor alone: images and feedback
\* texts copied by the user.  In the passes of a solve the service answers
\* a text that is code or a text that cleans to nothing, or it fails.
ShortResponses == {<<"a">>, <<SP>>}
SolveAnswerShort ==
  /\ running /\ \E r \in ShortResponses : solve_with_iterations(r)
  /\ UNCHANGED fnVars
NextWorker ==
  \/ UserCopy
  \/ ClipboardTick
  \/ WorkerTake
  \/ SolveAnswerShort
  \/ SolveRaise
  \/ FeedbackAnswer
  \/ FeedbackRaise
SpecWorker == Init /\ [][NextWorker]_vars

\* the worker thread is scheduled whenever a request waits, and every
\* generate_content call returns, with an answer or by raising
FairSpecWorker ==
  /\ SpecWorker
  /\ WF_vars(WorkerTake)
  /\ WF_vars(SolveAnswerShort \/ SolveRaise)
  /\ WF_vars(FeedbackAnswer \/ FeedbackRaise)

\* typing with the scheduler running every emitter thread that can run
FairSpecType ==
  SpecType /\ WF_vars(EmitterType) /\ WF_vars(EmitterDone)

(***************************************************************************)
(* The claims.                                                             *)
(***************************************************************************)
\* the sequence tags of the requests waiting in the queue
QueuedSeqs == [i \in 1..Len(processing_queue) |-> processing_queue[i].seq]

\* C1: single-flight.  In every reachable state at most one service call
\* (a pass of a fresh solve, a feedback pass or a refine pass) is waiting
\* for its answer, and it is the call of the one request the worker has in
\* hand; whatever the key handler and the clipboard monitor enqueue
\* meanwhile waits in the queue.
C1_SingleFlight ==
  /\ inflight <= 1
  /\ (inflight = 1) <=> (wpc # "get")

\* a solve is in flight for a request of the key handler while a request
\* of the clipboard monitor waits in the queue
C1_Witness ==
  /\ inflight = 1
  /\ cur.tag = "window"
  /\ processing_queue # <<>>
  /\ processing_queue[1].tag \in {"clipboard", "feedback"}

\* C2: FIFO, exactly once.  The requests the worker has taken, in the order
\* it took them, followed by the requests still waiting, are the requests
\* that were put, in the order they were put; the request in hand is the
\* one taken last.
C2_Fifo ==
  /\ processed \o QueuedSeqs = [i \in 1..enqueued |-> i]
  /\ processed # <<>> => cur.seq = processed[Len(processed)]

\* two requests of different producers were put and both were taken
C2_Witness ==
  /\ Len(processed) = 2
  /\ cur.tag \in {"clipboard", "feedback"}

\* C3: at most one typing emitter thread is active in every reachable
\* state.
C3_OneEmitter == Cardinality(emitters) <= 1

\* C4: after the x command an emitter that was running makes at most one
\* more call on the input sink.
C4_CancelStops == \A e \in emitters : e.cancelled => e.after <= 1

\* C5 as claimed: when a fresh image request has had three answers r1 r2
\* r3, three calls were made in the order initial, review, optimize, and
\* the solution is clean(r3) and the history clean(r1) clean(r2) clean(r3).
C5_ThreeAnswers ==
  (wpc = "get" /\ cur.tag \in FreshTags /\ Len(responses) = 3) =>
    /\ calls = <<"initial", "review", "optimize">>
    /\ response_text = clean_code(responses[3])
    /\ iteration_history = [i \in 1..3 |-> clean_code(responses[i])]

\* C5 amended: the same whenever clean(r3) is not empty; when it is empty
\* the three calls were made and the solution and the history are what
\* they were before the request.
C5_ThreeAnswersNonEmpty ==
  (wpc = "get" /\ cur.tag \in FreshTags /\ Len(responses) = 3) =>
    /\ calls = <<"initial", "review", "optimize">>
    /\ IF clean_code(responses[3]) # <<>>
         THEN /\ response_text = clean_code(responses[3])
              /\ iteration_history = [i \in 1..3 |-> clean_code(responses[i])]
         ELSE /\ response_text = before.text
              /\ iteration_history = before.history

\* a fresh solve ended after three answers, the first two different
C5_Witness ==
  /\ wpc = "get" /\ cur.tag \in FreshTags /\ Len(responses) = 3
  /\ responses[1] # responses[2]
  /\ clean_code(responses[3]) # <<>>
  /\ clean_code(responses[3]) # responses[3]

\* C6 as claimed: when a feedback or refine request has had its answer r,
\* one call was made, the solution is clean(r) and the history is the
\* history before the request with clean(r) appended.
C6_FeedbackApplied ==
  (wpc = "get" /\ cur.tag \in FeedbackTags /\ Len(responses) = 1) =>
    /\ calls = <<"feedback">>
    /\ response_text = clean_code(responses[1])
    /\ iteration_history = Append(before.history, clean_code(responses[1]))

\* C6 amended: the same whenever clean(r) is not empty; when it is empty
\* one call was made and the solution and the history are what they were
\* before the request.
C6_FeedbackAppliedNonEmpty ==
  (wpc = "get" /\ cur.tag \in FeedbackTags /\ Len(responses) = 1) =>
    /\ calls = <<"feedback">>
    /\ IF clean_code(responses[1]) # <<>>
         THEN /\ response_text = clean_code(responses[1])
              /\ iteration_history =
                   Append(before.history, clean_code(responses[1]))
         ELSE /\ response_text = before.text
              /\ iteration_history = before.history

\* a feedback or refine pass on a three-entry history was answered with a
\* text that cleans to something else than the solution before
C6_Witness ==
  /\ wpc = "get" /\ cur.tag \in FeedbackTags /\ Len(responses) = 1
  /\ Len(before.history) = 3
  /\ clean_code(responses[1]) # <<>>
  /\ clean_code(responses[1]) # before.text

\* C7: when the service fails in a pass of a fresh solve or in a feedback
\* or refine pass, the solution is what it was when the request was taken,
\* and the worker is back at the get of its loop, where it takes the next
\* request as soon as one waits.
C7_FailureKeepsSolution ==
  outcome = "service_failure" =>
    /\ response_text = before.text
    /\ wpc = "get"
    /\ processing_queue # <<>> => ENABLED WorkerTake

\* the service failed after the first pass of a fresh solve, a solution
\* of an earlier request being there, and another request waits
C7_Witness ==
  /\ outcome = "service_failure"
  /\ cur.tag \in FreshTags
  /\ Len(calls) >= 2
  /\ processing_queue # <<>>

\* C8: the typing flag is never true with no emitter thread running, and
\* every state with the flag set is followed by one with the flag cleared.
C8_TypingCleared ==
  /\ [](is_typing => emitters # {})
  /\ (is_typing ~> ~is_typing)

\* an emitter left through the sink error and the flag is cleared
C8_Witness == last_exit = "error" /\ ~is_typing /\ emitters = {}

\* C9: in the running process capturing is true only while a mouse thread
\* started by a begin-area-capture is there that can come to clear it.
C9_CapturingHasSession == (running /\ capturing) => mouse_threads > 0

\* the step of a begin-area-capture command
BeginAreaCapture ==
  running /\ ctrl_pressed /\ shift_pressed /\ on_key_press("c")

\* C10: a begin-area-capture command given while capturing is true creates
\* no overlay, starts no mouse thread and changes no state of the program.
C10_SecondCaptureIgnored ==
  [][(capturing /\ BeginAreaCapture) =>
       UNCHANGED <<running, kbVars, mouseVars, capturing, start_pos, end_pos,
                   overlay, root, windows, mouse_threads, clipVars,
                   queueVars, workerVars, solVars, typeVars>>]_vars


\* an area request is waiting in the queue
AreaRequestPending ==
  \E i \in 1..Len(processing_queue) : processing_queue[i].tag = "area"

CaptureDragEnds ==
  /\ running /\ capturing /\ press_capturing
  /\ button = "down" /\ button' = "up"

\* C12: a drag of no area yields no capture request.  When a drag made in
\* capture mode ends with less than one pixel between press and release
\* in x or in y, capturing is false afterwards and no service call is
\* made; and the worker never has a service call under way for an area
\* request whose rectangle has no area.
C12_ZeroAreaDragYieldsNothing ==
  /\ []((cur.tag = "area" /\ wpc \in Passes)
          => ~ZeroArea(start_pos, end_pos))
  /\ [][(CaptureDragEnds /\ ZeroArea(pointer, pointer'))
          => (~capturing' /\ UNCHANGED <<calls, inflight>>)]_vars

ClipboardPut ==
  /\ enqueued' = enqueued + 1
  /\ processing_queue'[Len(processing_queue')].tag = "clipboard"

\* C13: clipboard de-duplication.  A clipboard request is put, and the
\* recorded fingerprint changes, only in a step that finds on the
\* clipboard an image whose fingerprint differs from the recorded one;
\* that step puts exactly one request, for that image, and records its
\* fingerprint.  So a tick that finds the image of the tick before puts
\* nothing, and a tick that finds an image with another fingerprint puts
\* exactly one more request.
C13_ClipboardDedup ==
  [][LET img == grabclipboard(clip) IN
     /\ (ClipboardPut \/ last_clipboard_hash' # last_clipboard_hash)
          => /\ img # None
             /\ <<ImgHash(img)>> # last_clipboard_hash
             /\ last_clipboard_hash' = <<ImgHash(img)>>
             /\ processing_queue' =
                  Append(processing_queue,
                         [tag |-> "clipboard", data |-> img,
                          seq |-> enqueued + 1])
     /\ (ClipboardTick /\ img # None)
          => IF <<ImgHash(img)>> = last_clipboard_hash
               THEN UNCHANGED <<queueVars, last_clipboard_hash>>
               ELSE ClipboardPut /\ last_clipboard_hash' = <<ImgHash(img)>>
    ]_vars

\* the monitor has put one request for each of two images copied one after
\* the other, and holds the fingerprint of the second
C13_Witness ==
  /\ Len(processing_queue) = 2
  /\ processing_queue[1].tag = "clipboard"
  /\ processing_queue[2].tag = "clipboard"
  /\ processing_queue[1].data # processing_queue[2].data
  /\ clip = processing_queue[2].data
  /\ last_clipboard_hash = <<ImgHash(clip)>>

\* the letters that name a command
CommandKeys == {"c", "w", "v", "f", "x", "r", "h"}

\* what the command of a letter does to the state when it is triggered;
\* h only prints
CommandEffect(key) ==
  IF key = "c" THEN capturing' /\ captures' = captures + 1
  ELSE IF key = "w" THEN
    \/ UNCHANGED queueVars
    \/ /\ enqueued' = enqueued + 1
       /\ processing_queue'[Len(processing_queue')].tag = "window"
  ELSE IF key \in {"v", "f"} THEN
    IF TruthyText(response_text) /\ ~is_typing
      THEN is_typing' /\ emissions' = emissions + 1
      ELSE UNCHANGED typeVars
  ELSE IF key = "x" THEN ~is_typing'
  ELSE IF key = "r" THEN
    IF problem_image # None /\ TruthyText(response_text)
      THEN /\ enqueued' = enqueued + 1
           /\ processing_queue'[Len(processing_queue')].tag = "refine"
      ELSE UNCHANGED queueVars
  ELSE UNCHANGED vars

\* the flag of a modifier key
ModifierFlag(key) ==
  IF key = "ctrl" THEN ctrl_pressed
  ELSE IF key = "shift" THEN shift_pressed ELSE alt_pressed

\* C14: the hotkey state machine.  In every step in which the key handler
\* handles the key-down of a letter, the modifier flags stay as they are;
\* if the ctrl and shift flags are both set the command of the letter takes
\* effect (for a letter that names no command, nothing changes), and if
\* one of them is not set nothing at all changes.  In every step that
\* handles the key-up of a modifier, the flag of that modifier is clear
\* afterwards and the other flags are as before.
C14_HotkeyStateMachine ==
  [][/\ \A key \in CharKeys :
          (running /\ on_key_press(key))
            => /\ UNCHANGED kbVars
               /\ IF ctrl_pressed /\ shift_pressed
                    THEN IF key \in CommandKeys
                           THEN CommandEffect(key)
                           ELSE UNCHANGED vars
                    ELSE UNCHANGED vars
     /\ \A key \in ModifierKeys :
          (running /\ on_key_release(key))
            => /\ ~ModifierFlag(key)'
               /\ \A other \in ModifierKeys \ {key} :
                    ModifierFlag(other)' = ModifierFlag(other)
    ]_vars

\* with ctrl and shift held the user has given c, w, and (a solution being
\* there) v and r, each of which took effect, and has then let go of ctrl
C14_Witness ==
  /\ running /\ ~ctrl_pressed /\ shift_pressed
  /\ captures = 1 /\ capturing
  /\ emissions = 1 /\ is_typing
  /\ cur.tag = "window"
  /\ processing_queue # <<>> /\ processing_queue[1].tag = "refine"

\* C15: a feedback or refine request taken while there is no problem image
\* or no solution is a no-op.  The worker is back at its get() at once
\* having sent nothing to the service, and the solution, the history and
\* the problem image are what they were when the request was taken.
C15_FeedbackWithoutSolutionNoOp ==
  (cur.tag \in FeedbackTags
     /\ (before.image = None \/ ~TruthyText(before.text)))
    => /\ wpc = "get" /\ outcome = "nothing"
       /\ calls = <<>> /\ inflight = 0
       /\ response_text = before.text
       /\ iteration_history = before.history
       /\ problem_image = before.image

\* the worker has taken a feedback request after a solve that failed: there
\* is a problem image and no solution
C15_Witness ==
  /\ cur.tag = "feedback"
  /\ before.image # None /\ before.text = <<>>
  /\ outcome = "nothing"

\* s is a prefix of t
IsPrefix(s, t) == Len(s) <= Len(t) /\ SubSeq(t, 1, Len(s)) = s

\* C16: the history is cleared when the worker starts to solve a new image
\* and only grows at its end until the next such start.  While the worker
\* has the solve of an area, window or clipboard request in hand, the
\* history holds nothing but the cleaned answers of that solve; and in
\* every step that changes the history, either a solve starts and the
\* history becomes empty, or the history grows at its end.
C16_HistoryClearedAtStart ==
  /\ []((cur.tag \in FreshTags /\ wpc \in Passes)
          => /\ Len(iteration_history) <= Len(responses)
             /\ \A i \in 1..Len(iteration_history) :
                  iteration_history[i] = clean_code(responses[i]))
  /\ [][iteration_history' # iteration_history
          => \/ /\ wpc = "get" /\ wpc' = "pass1"
                /\ iteration_history' = <<>>
             \/ IsPrefix(iteration_history, iteration_history')]_vars

\* C17: the solution and the problem image belong together.  Whenever
\* there is a solution and the worker is idle at its get(), or has a
\* feedback or refine pass under way, the problem image is the image that
\* was sent with the service call that gave the solution.
C17_SolutionBelongsToImage ==
  (TruthyText(response_text) /\ wpc \in {"get", "feedback"})
    => problem_image = solution_image

\* the number of fence lines among lines
RECURSIVE FenceLines(_)
FenceLines(lines) ==
  IF lines = <<>> THEN 0
  ELSE (IF StartsWithFence(Head(lines)) THEN 1 ELSE 0)
       + FenceLines(Tail(lines))

\* the fence lines of a text are balanced (or absent)
Balanced(text) == FenceLines(SplitLines(text, <<>>)) % 2 = 0

\* C18: response cleaning is idempotent.  For every text whose fence lines
\* are balanced or absent, cleaning the cleaned text gives the cleaned
\* text again.
C18_CleanIdempotent ==
  (fn = "clean_code" /\ Len(result) = 2 /\ Balanced(arg))
    => result[2] = result[1]

\* a text with an opening and a closing fence line, an empty line after
\* the opening one and a line with a fence marker inside it has been
\* cleaned twice, and the cleaning took something away
C18_Witness ==
  /\ fn = "clean_code" /\ Len(result) = 2
  /\ arg = <<FENCE, "a", NL, NL, "a", FENCE, NL, FENCE>>
  /\ Balanced(arg)
  /\ result[1] = <<"a", FENCE>>

\* the absolute value
Abs(n) == IF n < 0 THEN 0 - n ELSE n

\* C19: rectangle normalization.  For every two corners start and end the
\* rectangle capture_area works with has as left the smaller x and as top
\* the smaller y, as width the absolute difference of the x and as height
\* that of the y, whichever way the drag went; an image is returned only
\* for a rectangle at least one pixel wide and high; and start (50,80),
\* end (10,20) gives left 10, top 20, width 40, height 60.
C19_RectangleNormalized ==
  fn = "capture_area" =>
    LET start == arg[1]
        end == arg[2]
        b == result[1]
        width == b.right - b.left
        height == b.bottom - b.top
    IN /\ b.left \in {start[1], end[1]}
       /\ b.left <= start[1] /\ b.left <= end[1]
       /\ b.top \in {start[2], end[2]}
       /\ b.top <= start[2] /\ b.top <= end[2]
       /\ width = Abs(end[1] - start[1])
       /\ height = Abs(end[2] - start[2])
       /\ result[2] # None => (width >= 1 /\ height >= 1)
       /\ (start = <<50, 80>> /\ end = <<10, 20>>)
            => (b.left = 10 /\ b.top = 20 /\ width = 40 /\ height = 60)

\* capture_area has grabbed the rectangle of a drag from (50,80) up and
\* to the left to (10,20)
C19_Witness ==
  /\ fn = "capture_area"
  /\ arg = <<(<<50, 80>>), (<<10, 20>>)>>
  /\ result[1] = [left |-> 10, top |-> 20, right |-> 50, bottom |-> 80]
  /\ result[2] \in Images

\* this step puts an area request
AreaPut ==
  /\ enqueued' = enqueued + 1
  /\ processing_queue'[Len(processing_queue')].tag = "area"

\* C21: a mouse session ends, and puts its area request, only on a release
\* of the primary button that follows a press made in that session.  In
\* every step in which a mouse thread started by begin-area-capture ends,
\* or an area request is put, the button goes up after a press made in
\* capture mode; and a release after a press made before capture mode
\* began ends no mouse thread, puts no request and leaves capturing set.
C21_SessionEndsOnItsOwnDrag ==
  /\ [][(mouse_threads' < mouse_threads \/ AreaPut)
          => (button = "down" /\ button' = "up" /\ press_capturing)]_vars
  /\ [][(running /\ capturing /\ ~press_capturing
           /\ button = "down" /\ button' = "up")
          => (capturing' /\ UNCHANGED <<mouse_threads, queueVars>>)]_vars

\* request number n has been taken by the worker and its processing is over
Finished(n) ==
  /\ \E i \in 1..Len(processed) : processed[i] = n
  /\ cur.seq # n \/ wpc = "get"

\* C22: worker liveness.  With the worker scheduled and every service call
\* returning, every request that is put on the queue is taken and its
\* processing comes to an end, whatever the outcome of the requests before
\* it (service failure, empty answer, nothing to do).
C22_EveryRequestFinishes ==
  \A n \in 1..MaxRequests : (enqueued >= n) ~> Finished(n)

\* the second request has been finished after the first one ended in a
\* service failure
C22_Witness ==
  /\ Len(processed) = 2 /\ Finished(2)
  /\ outcome \in {"solved", "empty", "nothing", "service_failure"}
  /\ before.image # None /\ before.text = <<>>

\* this step puts a window request
WindowPut ==
  /\ enqueued' = enqueued + 1
  /\ processing_queue'[Len(processing_queue')].tag = "window"

=============================================================================
